---- MODULE Spec2Model ----
(***************************************************************************)
(* A model of dungeon_maze (src/main.go): a Stage of solid tiles, AddRooms *)
(* carving random rooms, FillMaze carving a growing-tree maze, and the     *)
(* final rendering.  Every call of math/rand is a nondeterministic draw.   *)
(***************************************************************************)
EXTENDS Integers, Sequences, FiniteSets, TLC

\* ------------------------------------------------------------------ bounds
\* Spec runs the whole program.  The user passes -width and -height up to
\* MaxWidth x MaxHeight (grids no room fits in) with a fill-rate of FillRates,
\* or the same with -animate up to MaxAnimateWidth x MaxAnimateHeight, or one of
\* RoomInputs (-width, -height, -room_fill_rate); of the draws of AddRooms,
\* rand.Intn(12) <= MaxRoomWidthDraw, rand.Intn(8) <= MaxRoomHeightDraw,
\* rand.Intn(s.width) <= MaxRoomXDraw and rand.Intn(s.height) <= MaxRoomYDraw:
\* rooms of width 4 and height 4 at x in {2, 4, 6}, y = 2, so that on the grids of
\* RoomInputs the first candidate room is always placed (a maze over a whole grid
\* that a room fits in has too many states to enumerate).
MaxWidth == 7
MaxHeight == 5
MaxAnimateWidth == 5
MaxAnimateHeight == 5
RoomInputs == {<<11, 7, 20>>, <<11, 7, 100>>}
MaxRoomWidthDraw == 0
MaxRoomHeightDraw == 0
MaxRoomXDraw == 4
MaxRoomYDraw == 0
\* the -room_fill_rate values the user passes
FillRates == {0, 20}
\* SpecRooms runs main up to the first tile of the maze, with every draw of
\* AddRooms, on all grids up to RoomsMaxWidth x RoomsMaxHeight
RoomsMaxWidth == 13
RoomsMaxHeight == 9
RoomsFillRates == {0, 20, 100}
\* stands for the 10000 start value of AddRooms' maxIterations
MaxIterations == 2
\* SpecNine runs the whole program with -width 9 -height 9 -room_fill_rate 0,
\* every draw of FillMaze but the pick, rand.Intn(len(tiles)), which gives 0 (with
\* every pick the maze of a 9x9 grid has too many states to enumerate)
NineInputs == {<<9, 9, 0, FALSE>>}

\* ------------------------------------------------- constants of the program
DefaultWidth == 79
DefaultHeight == 21
DefaultFillRate == 20
RoomWidthDraws == 12
RoomWidthBase == 3
RoomHeightDraws == 8
RoomHeightBase == 3

VARIABLES
    pc,              \* position in main / AddRooms / FillMaze
    Width,           \* flag -width
    Height,          \* flag -height
    RoomFillRate,    \* flag -room_fill_rate
    Animate,         \* flag -animate
    width,           \* Stage.width
    height,          \* Stage.height
    cell,            \* Stage.cell: <<x, y>> -> Tile, for the keys present
    roomVolumeLeft,  \* local of AddRooms
    maxIterations,   \* loop counter of AddRooms
    rooms,           \* history: the Room values AddRooms placed
    attempts,        \* history: the candidate rooms AddRooms generated so far
    tiles,           \* local of FillMaze: the frontier (a slice of Tile)
    entered,         \* history: the keys of the tiles FillMaze put on the list
    carved,          \* history: the keys of the tiles FillMaze wrote as empty
    out              \* the terminal: the runes printed since it was last erased

vars == <<pc, Width, Height, RoomFillRate, Animate, width, height, cell,
          roomVolumeLeft, maxIterations, rooms, attempts, tiles, entered,
          carved, out>>

\* ------------------------------------------------------------ pure helpers
roundUpToEven(n) == IF n % 2 = 0 THEN n ELSE n + 1

\* the zero value of Tile, what a read of a missing map key gives
ZeroTile == [empty |-> FALSE, x |-> 0, y |-> 0]

\* NewStage: a solid tile for every (w, h) in 1..w x 1..h
NewStage(w, h) ==
    [k \in (1..w) \X (1..h) |-> [empty |-> FALSE, x |-> k[1], y |-> k[2]]]

cellExists(c, x, y) == <<x, y>> \in DOMAIN c

\* s.cell[x][y] as an rvalue
Get(c, x, y) == IF <<x, y>> \in DOMAIN c THEN c[<<x, y>>] ELSE ZeroTile

\* tmpTile := s.cell[x][y]; tmpTile.empty = true; s.cell[x][y] = tmpTile
\* for every key of the set ks (a write creates the key when it is missing)
CarveAll(c, ks) ==
    [k \in DOMAIN c \cup ks |->
        IF k \in ks THEN [Get(c, k[1], k[2]) EXCEPT !.empty = TRUE] ELSE c[k]]

isEdge(x, y) == x = 1 \/ x = width \/ y = 1 \/ y = height

\* -------------------------------------------------------------- random draws
\* getRandomIntList(start, end) with the draws js of its rand.Intn(i + 1) calls
Swap(r, i, j) == [r EXCEPT ![i] = r[j], ![j] = r[i]]

RECURSIVE SwapFrom(_, _, _)
SwapFrom(r, js, i) ==
    IF i > Len(r) THEN r ELSE SwapFrom(Swap(r, i, js[i] + 1), js, i + 1)

\* getRandomIntList returning one number too few
getRandomIntListShort(start, end, js) ==
    SubSeq(SwapFrom([i \in 1..(end - start) |-> start + (i - 1)], js, 1),
           1, end - start - 1)

getRandomIntList(start, end, js) ==
    SwapFrom([i \in 1..(end - start) |-> start + (i - 1)], js, 1)

\* every outcome of the end - start calls rand.Intn(i + 1), i = 0 .. end-start-1
SwapDraws(n) == {js \in [1..n -> 0..(n - 1)] : \A i \in 1..n : js[i] <= i - 1}

DirectionLists == {getRandomIntList(1, 5, js) : js \in SwapDraws(4)}

\* the Room literal of AddRooms from the four draws rand.Intn(12), rand.Intn(8),
\* rand.Intn(s.width), rand.Intn(s.height)
Room(a, b, c, d) ==
    [width  |-> roundUpToEven(a + RoomWidthBase),
     height |-> roundUpToEven(b + RoomHeightBase),
     x      |-> roundUpToEven(c + 1),
     y      |-> roundUpToEven(d + 1)]

Min(a, b) == IF a <= b THEN a ELSE b

\* the candidate rooms of one iteration, the four draws being at most ma, mb, mc, md
RoomCandidates(ma, mb, mc, md) ==
    {Room(a, b, c, d) : a \in 0..Min(RoomWidthDraws - 1, ma),
                        b \in 0..Min(RoomHeightDraws - 1, mb),
                        c \in 0..Min(width - 1, mc),
                        d \in 0..Min(height - 1, md)}

\* ------------------------------------------------------------------ AddRooms
\* the validation loops, +/- 1 as padding
PaddedRect(room) ==
    ((room.x - 1)..(room.x + room.width + 1)) \X ((room.y - 1)..(room.y + room.height + 1))

\* the tiles the placement loops write
RoomRect(room) ==
    ((room.x)..(room.x + room.width)) \X ((room.y)..(room.y + room.height))

\* validRoom without the test of .empty: only the bounds are checked
validRoomNoEmptyTest(c, room) ==
    \A k \in PaddedRect(room) : ~(k[1] > width \/ k[2] > height)

\* validRoom with the flag set anew in every pass: the last cell scanned decides
validRoomLastCell(c, room) ==
    LET x == room.x + room.width + 1
        y == room.y + room.height + 1
    IN  ~(x > width \/ y > height \/ Get(c, x, y).empty)

\* validRoom without the test of the bounds: only .empty is checked
validRoomNoBoundsTest(c, room) ==
    \A k \in PaddedRect(room) : ~Get(c, k[1], k[2]).empty

validRoom(c, room) ==
    \A k \in PaddedRect(room) :
        ~(k[1] > width \/ k[2] > height \/ Get(c, k[1], k[2]).empty)

\* a write s.cell[x][y] = t panics when the inner map s.cell[x] is nil
ColumnsExist(ks) == \A k \in ks : k[1] \in 1..width

\* ---------------------------------------------------------------- the program
\* the state after init(): the defaults rounded, nothing parsed or built yet
Init ==
    /\ pc = "main"
    /\ Width = roundUpToEven(DefaultWidth) - 1
    /\ Height = roundUpToEven(DefaultHeight) - 1
    /\ RoomFillRate = DefaultFillRate
    /\ Animate = FALSE
    /\ width = 0
    /\ height = 0
    /\ cell = <<>>
    /\ roomVolumeLeft = 0
    /\ maxIterations = 0
    /\ rooms = {}
    /\ attempts = 0
    /\ tiles = <<>>
    /\ entered = {}
    /\ carved = {}
    /\ out = <<>>

\* main: flag.Parse() stores the values the user passed, then NewStage
Main(w, h, f, a) ==
    /\ pc = "main"
    /\ Width' = w
    /\ Height' = h
    /\ RoomFillRate' = f
    /\ Animate' = a
    /\ width' = w
    /\ height' = h
    /\ cell' = NewStage(w, h)
    /\ pc' = "AddRooms"
    /\ UNCHANGED <<roomVolumeLeft, maxIterations, rooms, attempts, tiles,
                   entered, carved, out>>

\* AddRooms up to the loop: fill-rate 0 (or a tiny grid) returns at once
AddRoomsSkip ==
    /\ pc = "AddRooms"
    /\ (width * height * RoomFillRate) \div 100 = 0
    /\ pc' = "FillMaze"
    /\ UNCHANGED <<Width, Height, RoomFillRate, Animate, width, height, cell,
                   roomVolumeLeft, maxIterations, rooms, attempts, tiles,
                   entered, carved, out>>

AddRoomsEnter ==
    /\ pc = "AddRooms"
    /\ (width * height * RoomFillRate) \div 100 # 0
    /\ roomVolumeLeft' = (width * height * RoomFillRate) \div 100
    /\ maxIterations' = MaxIterations
    /\ pc' = "AddRoomsLoop"
    /\ UNCHANGED <<Width, Height, RoomFillRate, Animate, width, height, cell,
                   rooms, attempts, tiles, entered, carved, out>>

\* one iteration whose candidate room fails the validation: continue
AddRoomsReject(candidates) ==
    /\ pc = "AddRoomsLoop"
    /\ maxIterations >= 0
    /\ {room \in candidates : ~validRoom(cell, room)} # {}
    /\ maxIterations' = maxIterations - 1
    /\ attempts' = attempts + 1
    /\ UNCHANGED <<pc, Width, Height, RoomFillRate, Animate, width, height,
                   cell, roomVolumeLeft, rooms, tiles, entered, carved, out>>

\* one iteration whose candidate is placed; the loop breaks when the target is met
AddRoomsPlace(candidates) ==
    /\ pc = "AddRoomsLoop"
    /\ maxIterations >= 0
    /\ \E room \in candidates :
        /\ validRoom(cell, room)
        /\ IF ColumnsExist(RoomRect(room))
           THEN /\ cell' = CarveAll(cell, RoomRect(room))
                /\ rooms' = rooms \cup {room}
                /\ roomVolumeLeft' = roomVolumeLeft - room.height * room.width
                /\ IF roomVolumeLeft' <= 0
                   THEN /\ pc' = "FillMaze"
                        /\ maxIterations' = maxIterations
                   ELSE /\ pc' = pc
                        /\ maxIterations' = maxIterations - 1
           ELSE /\ pc' = "panic"
                /\ UNCHANGED <<cell, rooms, roomVolumeLeft, maxIterations>>
    /\ attempts' = attempts + 1
    /\ UNCHANGED <<Width, Height, RoomFillRate, Animate, width, height, tiles,
                   entered, carved, out>>

\* the iteration budget is used up: the loop ends and AddRooms returns
AddRoomsExhausted ==
    /\ pc = "AddRoomsLoop"
    /\ ~(maxIterations >= 0)
    /\ pc' = "FillMaze"
    /\ UNCHANGED <<Width, Height, RoomFillRate, Animate, width, height, cell,
                   roomVolumeLeft, maxIterations, rooms, attempts, tiles,
                   entered, carved, out>>

\* ---------------------------------------------------------------- rendering
\* cellMask without the test that the neighbour exists
cellMaskNoExistsTest(c, x, y) ==
    LET wall(nx, ny) == IF ~Get(c, nx, ny).empty THEN "1" ELSE "0"
    IN  <<wall(x, y - 1), wall(x + 1, y), wall(x, y + 1), wall(x - 1, y)>>

\* cellMask: the string top + right + bottom + left, as the sequence of its digits
cellMask(c, x, y) ==
    LET wall(nx, ny) ==
            IF cellExists(c, nx, ny) /\ ~Get(c, nx, ny).empty THEN "1" ELSE "0"
    IN  <<wall(x, y - 1), wall(x + 1, y), wall(x, y + 1), wall(x - 1, y)>>

\* the switch of PrintUnicode: the rune (its code point) of each mask, the box
\* drawing characters U+2501 .. U+257B, and '?' (63) by default
Glyph(mask) ==
    CASE mask = <<"1", "1", "1", "1">> -> 9547
      [] mask = <<"0", "1", "1", "1">> -> 9523
      [] mask = <<"1", "0", "1", "1">> -> 9515
      [] mask = <<"1", "1", "0", "1">> -> 9531
      [] mask = <<"1", "1", "1", "0">> -> 9507
      [] mask = <<"0", "0", "1", "1">> -> 9491
      [] mask = <<"0", "1", "1", "0">> -> 9487
      [] mask = <<"0", "1", "0", "1">> -> 9473
      [] mask = <<"1", "0", "1", "0">> -> 9475
      [] mask = <<"1", "0", "0", "1">> -> 9499
      [] mask = <<"1", "1", "0", "0">> -> 9495
      [] mask = <<"0", "0", "1", "0">> -> 9595
      [] mask = <<"0", "1", "0", "0">> -> 9594
      [] mask = <<"0", "0", "0", "1">> -> 9592
      [] mask = <<"1", "0", "0", "0">> -> 9593
      [] mask = <<"0", "0", "0", "0">> -> 9547
      [] OTHER -> 63

\* the rune PrintUnicode prints for the tile (x, y): ' ' (32) for an empty tile
Rune(c, x, y) == IF Get(c, x, y).empty THEN 32 ELSE Glyph(cellMask(c, x, y))

\* what the two loops of PrintUnicode print: the rows y = 1 .. height, each the
\* runes of x = 1 .. width and then "\n" (10)
Render(c) ==
    [n \in 1..(height * (width + 1)) |->
        LET x == ((n - 1) % (width + 1)) + 1
            y == ((n - 1) \div (width + 1)) + 1
        IN  IF x = width + 1 THEN 10 ELSE Rune(c, x, y)]

\* the terminal after PrintUnicode: with Animate it is erased first
PrintedOn(o, c) == IF Animate THEN Render(c) ELSE o \o Render(c)

\* Rendered with every read of a missing key storing the zero Tile under it
RenderedStoringReads(c) ==
    LET read == {<<k[1] + d[1], k[2] + d[2]>> :
                    k \in DOMAIN c, d \in {<<0, -1>>, <<1, 0>>, <<0, 1>>, <<-1, 0>>}}
    IN  [k \in DOMAIN c \cup read |-> Get(c, k[1], k[2])]

\* the grid after PrintUnicode: it only reads s.cell, and the read of a missing
\* key (cellExists and cellMask on the neighbours of a border tile) stores nothing
Rendered(c) == c

\* the head of an iteration of the FillMaze loop, if Animate { s.PrintUnicode() }:
\* the grid and the terminal after it
AtPick(c) == IF Animate THEN Rendered(c) ELSE c
Shown(c) == IF Animate THEN PrintedOn(out, c) ELSE out

\* ------------------------------------------------------------------ FillMaze
\* Adj with steps of one tile
AdjOneStep(direction) ==
    CASE direction = 1 -> <<0, 1>>
      [] direction = 2 -> <<1, 0>>
      [] direction = 3 -> <<0, -1>>
      [] direction = 4 -> <<-1, 0>>
      [] OTHER -> <<0, 0>>

\* the switch on direction: (curXAdj, curYAdj)
Adj(direction) ==
    CASE direction = 1 -> <<0, 2>>
      [] direction = 2 -> <<2, 0>>
      [] direction = 3 -> <<0, -2>>
      [] direction = 4 -> <<-2, 0>>
      [] OTHER -> <<0, 0>>

\* the four tests of getNextMove's loop body, none of which says continue
\* MoveAccepted without the test that the destination is still solid
MoveAcceptedNoEmptyTest(c, nextX, nextY) ==
    /\ ~isEdge(nextX, nextY)
    /\ ~((nextX > width \/ nextX <= 0) \/ (nextY > height \/ nextY <= 0))
    /\ cellExists(c, nextX, nextY)

MoveAccepted(c, nextX, nextY) ==
    /\ ~isEdge(nextX, nextY)
    /\ ~((nextX > width \/ nextX <= 0) \/ (nextY > height \/ nextY <= 0))
    /\ ~Get(c, nextX, nextY).empty
    /\ cellExists(c, nextX, nextY)

\* for each direction 1..4, whether the tests of the loop body accept the
\* destination it gives from tile t (the grid does not change during the loop)
AcceptedFrom(c, t) ==
    <<MoveAccepted(c, t.x + Adj(1)[1], t.y + Adj(1)[2]),
      MoveAccepted(c, t.x + Adj(2)[1], t.y + Adj(2)[2]),
      MoveAccepted(c, t.x + Adj(3)[1], t.y + Adj(3)[2]),
      MoveAccepted(c, t.x + Adj(4)[1], t.y + Adj(4)[2])>>

\* NextMoveFrom giving up after the direction at position k
NextMoveFromFirstOnly(accepted, t, directions, k) ==
    LET adj   == Adj(directions[k])
        nextX == t.x + adj[1]
        nextY == t.y + adj[2]
    IN  IF accepted[directions[k]]
        THEN <<nextX, nextY, t.x + adj[1] \div 2, t.y + adj[2] \div 2>>
        ELSE <<nextX, nextY, 0, 0>>

\* the loop over directions from position k on: break at the first accepted
\* move, else fall out with the last destination tried and middle (0, 0)
RECURSIVE NextMoveFrom(_, _, _, _)
NextMoveFrom(accepted, t, directions, k) ==
    LET adj   == Adj(directions[k])
        nextX == t.x + adj[1]
        nextY == t.y + adj[2]
    IN  IF accepted[directions[k]]
        THEN <<nextX, nextY, t.x + adj[1] \div 2, t.y + adj[2] \div 2>>
        ELSE IF k = Len(directions)
             THEN <<nextX, nextY, 0, 0>>
             ELSE NextMoveFrom(accepted, t, directions, k + 1)

\* getNextMove(tiles, i), i counted from 0, with the shuffled directions
getNextMove(c, ts, i, directions) ==
    NextMoveFrom(AcceptedFrom(c, ts[i + 1]), ts[i + 1], directions, 1)

\* the candidate origin of one pass of the seed loop: rand.Intn(s.width),
\* rand.Intn(s.height); rand.Intn(1) is 0, so the pass sets y = 0, as it was
\* SeedX without the rounding: the draw shifted to 1..width
SeedXUnrounded(r1) == r1 + 1

SeedX(r1) == roundUpToEven(r1)
SeedY(r2) == roundUpToEven(r2)

\* the test of the seed loop that says continue
\* SeedRejected without the test that the tile is still solid
SeedRejectedNoEmptyTest(c, x1, y1) == ~cellExists(c, x1, y1)

SeedRejected(c, x1, y1) == ~cellExists(c, x1, y1) \/ Get(c, x1, y1).empty

\* a pass of the seed loop that ends in continue: x and y stay 0
FillMazeSeedRetry ==
    /\ pc = "FillMaze"
    /\ {r \in (0..(width - 1)) \X (0..(height - 1)) :
          SeedRejected(cell, SeedX(r[1]), SeedY(r[2]))} # {}
    /\ UNCHANGED vars

\* the pass that finds the origin, then: clear it and start the list with it
FillMazeSeed ==
    /\ pc = "FillMaze"
    /\ \E r1 \in 0..(width - 1), r2 \in 0..(height - 1) :
        /\ ~SeedRejected(cell, SeedX(r1), SeedY(r2))
        /\ cell' = CarveAll(cell, {<<SeedX(r1), SeedY(r2)>>})
        /\ tiles' = <<cell'[<<SeedX(r1), SeedY(r2)>>]>>
        /\ entered' = {<<SeedX(r1), SeedY(r2)>>}
        /\ carved' = {<<SeedX(r1), SeedY(r2)>>}
    /\ pc' = "FillMazeLoop"
    /\ UNCHANGED <<Width, Height, RoomFillRate, Animate, width, height,
                   roomVolumeLeft, maxIterations, rooms, attempts, out>>

\* NoMove with && for ||
NoMoveAllZero(m) == m[1] = 0 /\ m[2] = 0 /\ m[3] = 0 /\ m[4] = 0

NoMove(m) == m[1] = 0 \/ m[2] = 0 \/ m[3] = 0 \/ m[4] = 0

\* what getNextMove(cell, tiles, i, directions) can return, over every shuffle of
\* the directions (the four tests being evaluated once for all shuffles)
NextMoves(i) ==
    LET accepted == AcceptedFrom(AtPick(cell), tiles[i + 1])
    IN  {NextMoveFrom(accepted, tiles[i + 1], directions, 1) :
            directions \in DirectionLists}

\* an iteration, i = rand.Intn(len(tiles)) drawn from picks and m the move
\* getNextMove returned, that finds no move:
\* tiles = append(tiles[:i], tiles[i+1:]...)
FillMazeRemove(picks) ==
    /\ pc = "FillMazeLoop"
    /\ Len(tiles) > 0
    /\ \E i \in picks :
        /\ {m \in NextMoves(i) : NoMove(m)} # {}
        /\ tiles' = SubSeq(tiles, 1, i) \o SubSeq(tiles, i + 2, Len(tiles))
    /\ cell' = AtPick(cell)
    /\ out' = Shown(cell)
    /\ UNCHANGED <<pc, Width, Height, RoomFillRate, Animate, width, height,
                   roomVolumeLeft, maxIterations, rooms, attempts, entered,
                   carved>>

\* CarveKeys without the middle cell
CarveKeysNoMiddle(c, m) == {<<m[1], m[2]>>}

\* the keys an accepted move m writes: the destination, and the middle if it exists
CarveKeys(c, m) ==
    {<<m[1], m[2]>>} \cup (IF cellExists(c, m[3], m[4]) THEN {<<m[3], m[4]>>} ELSE {})

\* an iteration that carves the destination and the middle cell
FillMazeCarve(picks) ==
    /\ pc = "FillMazeLoop"
    /\ Len(tiles) > 0
    /\ \E i \in picks : \E m \in NextMoves(i) :
        /\ ~NoMove(m)
        /\ IF cellExists(AtPick(cell), m[1], m[2])
           THEN /\ cell' = CarveAll(AtPick(cell), CarveKeys(AtPick(cell), m))
                /\ tiles' = Append(tiles, cell'[<<m[1], m[2]>>])
                /\ entered' = entered \cup {<<m[1], m[2]>>}
                /\ carved' = carved \cup CarveKeys(AtPick(cell), m)
           ELSE /\ cell' = AtPick(cell)
                /\ UNCHANGED <<tiles, entered, carved>>
    /\ out' = Shown(cell)
    /\ UNCHANGED <<pc, Width, Height, RoomFillRate, Animate, width, height,
                   roomVolumeLeft, maxIterations, rooms, attempts>>

\* the list is empty: FillMaze returns
FillMazeReturn ==
    /\ pc = "FillMazeLoop"
    /\ ~(Len(tiles) > 0)
    /\ pc' = "PrintUnicode"
    /\ UNCHANGED <<Width, Height, RoomFillRate, Animate, width, height, cell,
                   roomVolumeLeft, maxIterations, rooms, attempts, tiles,
                   entered, carved, out>>

\* the final s.PrintUnicode() of main
PrintUnicode ==
    /\ pc = "PrintUnicode"
    /\ cell' = Rendered(cell)
    /\ out' = PrintedOn(out, cell)
    /\ pc' = "done"
    /\ UNCHANGED <<Width, Height, RoomFillRate, Animate, width, height,
                   roomVolumeLeft, maxIterations, rooms, attempts, tiles,
                   entered, carved>>

\* ------------------------------------------------------------ specifications
\* the candidate rooms under the bounds of Spec, and under no bound
BoundedCandidates ==
    RoomCandidates(MaxRoomWidthDraw, MaxRoomHeightDraw, MaxRoomXDraw, MaxRoomYDraw)

AllCandidates ==
    RoomCandidates(RoomWidthDraws - 1, RoomHeightDraws - 1, width - 1, height - 1)

\* the outcomes of rand.Intn(len(tiles)): all of them, and 0 alone (the oldest
\* tile of the list is picked)
AllPicks == 0..(Len(tiles) - 1)
FirstPick == {0}

\* the flags the user passes
Inputs ==
    ((1..MaxWidth) \X (1..MaxHeight) \X FillRates \X {FALSE})
        \cup ((1..MaxAnimateWidth) \X (1..MaxAnimateHeight) \X FillRates \X {TRUE})
        \cup {<<in[1], in[2], in[3], FALSE>> : in \in RoomInputs}

Next ==
    \/ \E in \in Inputs : Main(in[1], in[2], in[3], in[4])
    \/ AddRoomsSkip
    \/ AddRoomsEnter
    \/ AddRoomsReject(BoundedCandidates)
    \/ AddRoomsPlace(BoundedCandidates)
    \/ AddRoomsExhausted
    \/ FillMazeSeedRetry
    \/ FillMazeSeed
    \/ FillMazeRemove(AllPicks)
    \/ FillMazeCarve(AllPicks)
    \/ FillMazeReturn
    \/ PrintUnicode

Spec == Init /\ [][Next]_vars

\* main up to the first tile of the maze, every draw of AddRooms included
NextRooms ==
    \/ \E w \in 1..RoomsMaxWidth, h \in 1..RoomsMaxHeight, f \in RoomsFillRates :
          Main(w, h, f, FALSE)
    \/ AddRoomsSkip
    \/ AddRoomsEnter
    \/ AddRoomsReject(AllCandidates)
    \/ AddRoomsPlace(AllCandidates)
    \/ AddRoomsExhausted
    \/ FillMazeSeedRetry
    \/ FillMazeSeed

SpecRooms == Init /\ [][NextRooms]_vars

\* the whole program on the grids of NineInputs, rand.Intn(len(tiles)) giving 0
NextNine ==
    \/ \E in \in NineInputs : Main(in[1], in[2], in[3], in[4])
    \/ AddRoomsSkip
    \/ FillMazeSeedRetry
    \/ FillMazeSeed
    \/ FillMazeRemove(FirstPick)
    \/ FillMazeCarve(FirstPick)
    \/ FillMazeReturn
    \/ PrintUnicode

SpecNine == Init /\ [][NextNine]_vars

\* ------------------------------------------------------------------ properties
Abs(n) == IF n < 0 THEN -n ELSE n
Odd(n) == n % 2 = 1
OddGrid == Odd(width) /\ Odd(height)

\* the keys of the tiles that are empty
EmptyTiles == {k \in DOMAIN cell : cell[k].empty}
\* the tiles the placed rooms carved
RoomTiles == UNION {RoomRect(r) : r \in rooms}
\* the tiles with both coordinates even
Lattice == {k \in DOMAIN cell : k[1] % 2 = 0 /\ k[2] % 2 = 0}
\* the padding ring of a room
Ring(r) == PaddedRect(r) \ RoomRect(r)
\* the four orthogonal neighbours of a key
Neighbours(k) ==
    {<<k[1], k[2] - 1>>, <<k[1] + 1, k[2]>>, <<k[1], k[2] + 1>>, <<k[1] - 1, k[2]>>}

\* C1: the empty tiles AddRooms leaves are exactly the tiles of the placed rooms,
\* and no tile of one room equals or is orthogonally or diagonally adjacent to a
\* tile of another room
C1_RoomsNeverTouch ==
    /\ pc \in {"AddRoomsLoop", "FillMaze"} => EmptyTiles = RoomTiles
    /\ \A r1 \in rooms : \A r2 \in rooms \ {r1} :
          \A t1 \in RoomRect(r1) : \A t2 \in RoomRect(r2) :
              Abs(t1[1] - t2[1]) > 1 \/ Abs(t1[2] - t2[2]) > 1

\* two rooms side by side, one solid column between them
C1_Witness ==
    \E r1 \in rooms : \E r2 \in rooms :
        r2.x = r1.x + r1.width + 2 /\ r2.y = r1.y

\* C2: on an odd grid of at least 3x3, when FillMaze starts some draw of the seed
\* loop gives an existing, still solid tile
C2_SeedExists ==
    (pc = "FillMaze" /\ OddGrid /\ width >= 3 /\ height >= 3)
        => \E r1 \in 0..(width - 1), r2 \in 0..(height - 1) :
              ~SeedRejected(cell, SeedX(r1), SeedY(r2))

\* C3: on an odd grid the origin FillMaze carves and starts the list with lies on
\* the outer border
C3_OriginOnBorder ==
    [][(pc = "FillMaze" /\ pc' = "FillMazeLoop" /\ OddGrid)
          => isEdge(tiles'[1].x, tiles'[1].y)]_vars

Measure == 2 * Cardinality({k \in Lattice : ~cell[k].empty}) + Len(tiles)

\* C5: every iteration of the FillMaze loop strictly decreases the measure, which
\* is never negative, so the list is empty after finitely many iterations
C5_MeasureDecreases ==
    [][(pc = "FillMazeLoop" /\ pc' = "FillMazeLoop")
          => (Measure' < Measure /\ Measure' >= 0)]_vars

\* the loop has carved and has emptied the list again
C5_Witness ==
    pc = "FillMazeLoop" /\ Len(tiles) = 0 /\ Cardinality(EmptyTiles \ RoomTiles) >= 5

\* C6: on an odd grid, when FillMaze has returned, every non-edge tile of the
\* lattice (of a room or not) is empty
C6_MazeFillsAll ==
    (pc \in {"PrintUnicode", "done"} /\ OddGrid)
        => \A k \in Lattice : ~isEdge(k[1], k[2]) => cell[k].empty

\* C7: every tile of the padding ring of every placed room exists and is solid
C7_RingSolid ==
    \A r \in rooms : \A k \in Ring(r) : cellExists(cell, k[1], k[2]) /\ ~cell[k].empty

\* the finished maze has a tile right beside the ring of a room
C7_Witness ==
    /\ pc = "done"
    /\ \E r \in rooms : \E k \in EmptyTiles \ RoomTiles : Neighbours(k) \cap Ring(r) # {}

\* C8: no step takes a tile from empty back to solid; the seed step empties
\* exactly the origin, which was solid; a carve step empties exactly two tiles,
\* both solid before, one of them the destination it appends
C8_CarveOnlySolid ==
    [][/\ EmptyTiles \subseteq EmptyTiles'
       /\ (pc = "FillMaze" /\ pc' = "FillMazeLoop")
             => /\ Cardinality(EmptyTiles' \ EmptyTiles) = 1
                /\ <<tiles'[1].x, tiles'[1].y>> \in EmptyTiles' \ EmptyTiles
       /\ (pc = "FillMazeLoop" /\ Len(tiles') = Len(tiles) + 1)
             => /\ Cardinality(EmptyTiles' \ EmptyTiles) = 2
                /\ <<tiles'[Len(tiles')].x, tiles'[Len(tiles')].y>>
                      \in EmptyTiles' \ EmptyTiles]_vars

\* the maze is finished on a grid with a room, the room still empty
C8_Witness ==
    /\ pc = "done"
    /\ rooms # {}
    /\ RoomTiles \subseteq EmptyTiles
    /\ Cardinality(EmptyTiles \ RoomTiles) >= 3

\* C9, as claimed: the padded rectangles of two placed rooms share no tile
C9_PaddedDisjoint ==
    \A r1 \in rooms : \A r2 \in rooms \ {r1} : PaddedRect(r1) \cap PaddedRect(r2) = {}

\* C9, amended: the carved rectangle of a placed room shares no tile with the
\* padded rectangle of another placed room
C9_RoomOffPadded ==
    \A r1 \in rooms : \A r2 \in rooms \ {r1} : RoomRect(r1) \cap PaddedRect(r2) = {}

\* two rooms whose padding rings share tiles
C9_Witness ==
    \E r1 \in rooms : \E r2 \in rooms \ {r1} : Ring(r1) \cap Ring(r2) # {}

\* C10: AddRooms generates at most as many candidate rooms as the start value of
\* maxIterations
C10_AtMostMaxIterations == attempts <= MaxIterations

\* the fill target AddRooms starts from
RoomVolume == (width * height * RoomFillRate) \div 100

\* C11: what AddRooms has subtracted from the fill target so far equals the number
\* of tiles its rooms carved to empty
C11_SubtractedEqualsCarved ==
    (pc \in {"AddRoomsLoop", "FillMaze"} /\ rooms # {})
        => RoomVolume - roomVolumeLeft = Cardinality(EmptyTiles)

\* the tiles two steps up, right, down and left of a key
TwoSteps(k) ==
    {<<k[1], k[2] + 2>>, <<k[1] + 2, k[2]>>, <<k[1], k[2] - 2>>, <<k[1] - 2, k[2]>>}
\* a tile within bounds, not on the outer edge and still solid
Carvable(k) ==
    /\ k[1] \in 1..width
    /\ k[2] \in 1..height
    /\ ~isEdge(k[1], k[2])
    /\ k \in DOMAIN cell
    /\ ~cell[k].empty
FillMazeDone == pc \in {"PrintUnicode", "done"}

\* C12, as claimed: when FillMaze has returned (on an odd grid), no tile that is
\* still solid has a tile two steps away that is within bounds, not on the edge
\* and still solid
C12_SolidHaveNoMove ==
    (FillMazeDone /\ OddGrid)
        => \A k \in DOMAIN cell : ~cell[k].empty => \A n \in TwoSteps(k) : ~Carvable(n)

\* C12, amended: when FillMaze has returned, no tile that was ever on the list has
\* a tile two steps away that is within bounds, not on the edge and still solid
C12_EnteredHaveNoMove ==
    FillMazeDone => \A k \in entered : \A n \in TwoSteps(k) : ~Carvable(n)

\* a finished maze of several corridors, and two solid tiles off the edge that
\* are two steps apart
C12_Witness ==
    /\ pc = "done"
    /\ Cardinality(entered) >= 4
    /\ \E k \in DOMAIN cell : Carvable(k) /\ \E n \in TwoSteps(k) : Carvable(n)

\* C13: with fill-rate 0 AddRooms generates and places no room and leaves every
\* tile solid; when FillMaze has returned, the number of empty tiles is odd and
\* every tile that was put on the list has both coordinates even
C13_FillZeroOddCount ==
    (RoomFillRate = 0 /\ pc # "main")
        => /\ rooms = {}
           /\ attempts = 0
           /\ pc = "FillMaze" => EmptyTiles = {}
           /\ FillMazeDone
                 => /\ Odd(Cardinality(EmptyTiles))
                    /\ \A k \in entered : k[1] % 2 = 0 /\ k[2] % 2 = 0

\* the maze of the 9x9 grid is finished, at least five tiles having been on the list
C13_Witness ==
    /\ pc = "done"
    /\ RoomFillRate = 0
    /\ width = 9
    /\ height = 9
    /\ Cardinality(entered) >= 5

\* C14: in every state the keys of the grid are exactly (1..width) x (1..height),
\* every tile stores its own key as (x, y), no write missed an existing column,
\* and cellExists is true of the coordinates within bounds and of no other
C14_TilesAreTheGrid ==
    /\ pc # "panic"
    /\ DOMAIN cell = (1..width) \X (1..height)
    /\ \A k \in DOMAIN cell : cell[k].x = k[1] /\ cell[k].y = k[2]
    /\ \A x \in 0..(width + 1), y \in 0..(height + 1) :
          cellExists(cell, x, y) <=> (1 <= x /\ x <= width /\ 1 <= y /\ y <= height)

\* rooms, maze and rendering are done, one room reaching the last column and the
\* last row before the border
C14_Witness ==
    /\ pc = "done"
    /\ Len(out) = height * (width + 1)
    /\ carved # {}
    /\ \E r \in rooms : r.x + r.width = width - 1 /\ r.y + r.height = height - 1

\* C15: the grid main builds has odd width and odd height: the values of -width
\* and -height rounded up to even, less one
C15_GridIsOdd ==
    pc # "main"
        => /\ OddGrid
           /\ width = roundUpToEven(Width) - 1
           /\ height = roundUpToEven(Height) - 1

\* a tile that exists and is solid
Wall(x, y) == x \in 1..width /\ y \in 1..height /\ ~cell[<<x, y>>].empty
Digit(b) == IF b THEN "1" ELSE "0"
\* the rune printed for the tile (x, y), row after row, a newline after each row
Printed(x, y) == out[(y - 1) * (width + 1) + x]

IterationResult(c, ts, i, m) ==
    IF NoMove(m)
    THEN <<c, SubSeq(ts, 1, i) \o SubSeq(ts, i + 2, Len(ts))>>
    ELSE IF cellExists(c, m[1], m[2])
         THEN LET carvedCell == CarveAll(c, CarveKeys(c, m))
              IN  <<carvedCell, Append(ts, carvedCell[<<m[1], m[2]>>])>>
         ELSE <<c, ts>>

\* the grids and lists such an iteration can give: every pick, every shuffle
IterationWithoutRender(c, ts) ==
    UNION {LET accepted == AcceptedFrom(c, ts[i + 1])
               moves == {NextMoveFrom(accepted, ts[i + 1], directions, 1) :
                            directions \in DirectionLists}
           IN  {IterationResult(c, ts, i, m) : m \in moves} :
              i \in 0..(Len(ts) - 1)}

Between(a, b) == <<(a[1] + b[1]) \div 2, (a[2] + b[2]) \div 2>>
\* the list ts without its entry at position i (counted from 1)
Without(ts, i) == SubSeq(ts, 1, i - 1) \o SubSeq(ts, i + 1, Len(ts))

\* C18: every iteration of the FillMaze loop has a tile i of the list such that
\* either no tile two steps from it is within bounds, off the edge and solid, and
\* then exactly entry i leaves the list and the grid is as before; or one such
\* tile and the tile between become empty, no other tile changes, and the
\* destination is appended to the list, which loses nothing.  When FillMaze has
\* returned, no tile that was on the list has such a tile two steps away
C18_RemoveOrCarve ==
    [][/\ (pc = "FillMazeLoop" /\ pc' = "FillMazeLoop")
             => \E i \in 1..Len(tiles) :
                   LET t == <<tiles[i].x, tiles[i].y>>
                       dests == {n \in TwoSteps(t) : Carvable(n)}
                   IN  \/ /\ dests = {}
                          /\ tiles' = Without(tiles, i)
                          /\ cell' = cell
                       \/ \E n \in dests :
                             /\ ~cell[Between(t, n)].empty
                             /\ cell' = [k \in DOMAIN cell |->
                                            IF k \in {n, Between(t, n)}
                                            THEN [cell[k] EXCEPT !.empty = TRUE]
                                            ELSE cell[k]]
                             /\ tiles' = Append(tiles, cell'[n])
       /\ (pc = "FillMazeLoop" /\ pc' = "PrintUnicode")
             => \A k \in entered : \A n \in TwoSteps(k) : ~Carvable(n)]_vars

\* the loop has removed tiles that ran out of moves while others are still on
\* the list, beside a room
C18_Witness ==
    /\ pc = "FillMazeLoop"
    /\ rooms # {}
    /\ Len(tiles) >= 2
    /\ Cardinality(entered) >= Len(tiles) + 2

RECURSIVE ReachWithin(_, _)
ReachWithin(sofar, s) ==
    LET more == {k \in s \ sofar : Neighbours(k) \cap sofar # {}}
    IN  IF more = {} THEN sofar ELSE ReachWithin(sofar \cup more, s)

\* C20: in every state the tiles the maze carved (the seed is one of them) are
\* all reachable from one another by orthogonal steps through such tiles, and
\* they are 2 * n - 1 where n of them have both coordinates even; and no solid
\* tile has all four neighbours in the grid and empty
C20_CorridorTree ==
    /\ carved # {}
          => /\ \E k \in carved : ReachWithin({k}, carved) = carved
             /\ Cardinality(carved) = 2 * Cardinality(carved \cap Lattice) - 1
    /\ \A k \in DOMAIN cell :
          ~cell[k].empty => ~(Neighbours(k) \subseteq EmptyTiles)

\* a finished maze of six corridor cells and the five tiles between them
C20_Witness ==
    pc = "done" /\ Cardinality(carved) >= 11

====
